---- MODULE Spec2Model ----
(***************************************************************************)
(* Model of the notice watcher check_pages.py (the primary script) and of  *)
(* check_pages.py.py (the older, alternate script kept beside it).         *)
(*                                                                         *)
(* Text is modelled as a sequence of character codes: 0..9 are the digits  *)
(* '0'..'9' and 10, 11 are the letters 'a', 'b', which Python orders after *)
(* every digit.  An id is such a sequence; a title is a TLA+ string.       *)
(***************************************************************************)
EXTENDS Integers, Sequences, FiniteSets, TLC

VARIABLES
    variant,    \* which script runs: "primary" (check_pages.py) or "alternate" (check_pages.py.py)
    creds,      \* BOT_TOKEN and CHAT_ID are both set
    config,     \* targets.json: the sequence of target descriptors
    disk,       \* state.json: [kind |-> "missing" | "corrupt" | "ok", data |-> name -> list of ids]
    state,      \* main's `state`: name -> set of ids
    pc,         \* position in main / run_target
    idx,        \* index of the target the for loop of main is at
    seen,       \* run_target's `seen`
    aliased,    \* `seen` is the very set object stored in state[name]
    items,      \* run_target's `items`
    new_items,  \* run_target's `new_items`
    k,          \* index of the next element of new_items to send
    outbox,     \* the telegram_send calls of this invocation, in order
    fetched,    \* name -> the page the source's fetch returned in this invocation
    prev,       \* what the previous invocation saw and did
    runs,       \* number of invocations of the script so far
    entry,      \* `state` as it was when the current run_target was called
    outcome     \* how far the current run_target has got

vars == <<variant, creds, config, disk, state, pc, idx, seen, aliased, items,
          new_items, k, outbox, fetched, prev, runs, entry, outcome>>

(***************************************************************************)
(* Bounds of the model.                                                    *)
(***************************************************************************)
\* save_state keeps the first 3000 ids of every list.  The model runs the
\* same slice with a small cap so that lists longer than the cap occur.
StateCap == 3
\* Number of invocations of the script (cron runs) a behaviour holds.
MaxRuns == 2

(***************************************************************************)
(* Strings and integers                                                    *)
(***************************************************************************)
Min(a, b) == IF a < b THEN a ELSE b

\* str.isdigit()
IsDigit(s) == s # <<>> /\ \A i \in 1..Len(s) : s[i] \in 0..9

\* int(s) for a digit string
RECURSIVE IntOf(_)
IntOf(s) == IF s = <<>> THEN 0
            ELSE IntOf(SubSeq(s, 1, Len(s) - 1)) * 10 + s[Len(s)]

\* Python's str.__lt__: code point by code point, a proper prefix is smaller
RECURSIVE StrLess(_, _)
StrLess(a, b) ==
    IF a = <<>> THEN b # <<>>
    ELSE IF b = <<>> THEN FALSE
    ELSE IF a[1] # b[1] THEN a[1] < b[1]
    ELSE StrLess(Tail(a), Tail(b))

\* seq[:n] for n >= 0
Take(seq, n) == SubSeq(seq, 1, Min(n, Len(seq)))

Range(seq) == {seq[i] : i \in 1..Len(seq)}

(***************************************************************************)
(* State store                                                             *)
(***************************************************************************)
\* {} as a dict
EmptyMap == [n \in {} |-> {}]

\* sorted(v, reverse=True) on a set of str: plain string order
RECURSIVE SortedStrDesc(_)
SortedStrDesc(S) ==
    IF S = {} THEN <<>>
    ELSE LET m == CHOOSE x \in S : \A y \in S : ~StrLess(x, y)
         IN  <<m>> \o SortedStrDesc(S \ {m})

\* list(sorted(v, reverse=True))[:3000]
Compact(v) == Take(SortedStrDesc(v), StateCap)

\* save_state: the content written to state.json
save_state(st) == [kind |-> "ok", data |-> [n \in DOMAIN st |-> Compact(st[n])]]

\* load_state that never reads the file
LoadNothing(d) == EmptyMap

\* load_state: missing or unreadable file gives {}, else name -> set of its ids
load_state(d) ==
    IF d.kind = "ok" THEN [n \in DOMAIN d.data |-> Range(d.data[n])]
    ELSE EmptyMap

\* state.get(name, set())
StateGet(st, name) == IF name \in DOMAIN st THEN st[name] ELSE {}

(***************************************************************************)
(* Documents                                                               *)
(*                                                                         *)
(* A page is [final |-> the URL the fetch ended at, blocks |-> ...]; a     *)
(* block is a <tr> with its <td> texts and its <a> elements in document    *)
(* order, or (tr = FALSE) a run of <a> elements outside any <tr>.          *)
(* An <a> is [title, href, onclick].  An href is                           *)
(*   [kind |-> "none" (no attribute) | "empty" | "hash" ("#") |            *)
(*             "js" ("javascript:...") | "rel" (a link),                   *)
(*    path, seg |-> the text after "<path>/", pname, pval |-> the first    *)
(*    query parameter and its value].                                      *)
(* An onclick is [has |-> it holds a quoted non-empty text, ref |-> that   *)
(* text as an href].  A URL is [base, ref]: ref resolved against base.     *)
(***************************************************************************)
NoRef == [kind |-> "empty", path |-> "", seg |-> <<>>, pname |-> "", pval |-> <<>>]

\* str.lower() on the parameter names that occur
Lower(p) == CASE p \in {"Key", "KEY", "key"} -> "key"
              [] p \in {"num", "Num"} -> "num"
              [] OTHER -> p

\* the text a leading \d+ captures
RECURSIVE LeadDigits(_)
LeadDigits(s) == IF s = <<>> \/ s[1] \notin 0..9 THEN <<>>
                 ELSE <<s[1]>> \o LeadDigits(Tail(s))

\* urljoin(base, href): "" and "#" resolve to the base document
urljoin(base, h) ==
    IF h.kind \in {"empty", "hash", "none"} THEN [base |-> base, ref |-> NoRef]
    ELSE [base |-> base, ref |-> h]

\* a URL used as it is
AsUrl(u) == [base |-> u, ref |-> NoRef]

Item(id, title, url) == [item_id |-> id, title |-> title, url |-> url]

\* items_by_id[it.item_id] = it: a dict keeps the position of the first insertion
DictPut(d, it) ==
    IF \E i \in 1..Len(d) : d[i].item_id = it.item_id
    THEN [i \in 1..Len(d) |-> IF d[i].item_id = it.item_id THEN it ELSE d[i]]
    ELSE Append(d, it)

RECURSIVE DictPutAll(_, _)
DictPutAll(d, its) ==
    IF its = <<>> THEN d ELSE DictPutAll(DictPut(d, Head(its)), Tail(its))

RECURSIVE Flat(_)
Flat(ss) == IF ss = <<>> THEN <<>> ELSE Head(ss) \o Flat(Tail(ss))

\* soup.find_all("tr")
Rows(page) == SelectSeq(page.blocks, LAMBDA b : b.tr)

\* soup.find_all("a") with, for each, its find_parent("tr") block
Anchors(page) ==
    Flat([i \in 1..Len(page.blocks) |->
            [j \in 1..Len(page.blocks[i].anchors) |->
                [a |-> page.blocks[i].anchors[j], blk |-> page.blocks[i]]]])

(***************************************************************************)
(* Ordering of items                                                       *)
(***************************************************************************)
\* key=lambda it: int(it.item_id)            (check_pages.py)
IntKeyLess(a, b) == IntOf(a) < IntOf(b)

\* sort_key: int(id) if id.isdigit() else id  (check_pages.py.py); Python
\* refuses to order an int against a str
Comparable(a, b) == IsDigit(a) = IsDigit(b)
SortKeyLess(a, b) == IF IsDigit(a) /\ IsDigit(b) THEN IntOf(a) < IntOf(b)
                     ELSE StrLess(a, b)

\* the key order of script v
KeyLess(v, a, b) == IF v = "primary" THEN IntKeyLess(a, b) ELSE SortKeyLess(a, b)

\* `it` put into the sorted list behind every element it does not precede
InsertSorted(sorted, it, v, reverse) ==
    LET before(e) == IF reverse THEN KeyLess(v, e.item_id, it.item_id)
                     ELSE KeyLess(v, it.item_id, e.item_id)
        p == Cardinality({i \in 1..Len(sorted) : ~before(sorted[i])})
    IN  SubSeq(sorted, 1, p) \o <<it>> \o SubSeq(sorted, p + 1, Len(sorted))

\* sorted(its, key=..., reverse=...): stable
RECURSIVE SortItems(_, _, _)
SortItems(its, v, reverse) ==
    IF its = <<>> THEN <<>>
    ELSE InsertSorted(SortItems(SubSeq(its, 1, Len(its) - 1), v, reverse),
                      its[Len(its)], v, reverse)

\* the sort raises TypeError: two keys of different types meet
SortRaises(its, v) ==
    /\ v = "alternate"
    /\ \E i, j \in 1..Len(its) : ~Comparable(its[i].item_id, its[j].item_id)

Returned(its) == [ok |-> TRUE, items |-> its]
Raised == [ok |-> FALSE, items |-> <<>>]

(***************************************************************************)
(* Extraction                                                              *)
(***************************************************************************)
\* lines 113-123: the link of a row found by the first pass
LinkUrl(a, target_url, final_url) ==
    IF a.href.kind = "rel" THEN urljoin(final_url, a.href)
    ELSE IF a.onclick.has THEN urljoin(final_url, a.onclick.ref)
    ELSE AsUrl(target_url)

\* lines 96-125: what one <tr> adds in the first pass
RowPass(tr, target_url, final_url) ==
    IF tr.tds = <<>> THEN <<>>
    ELSE IF ~IsDigit(tr.tds[1]) THEN <<>>
    ELSE IF tr.anchors = <<>> THEN <<>>
    ELSE IF tr.anchors[1].title = "" THEN <<>>
    ELSE <<Item(tr.tds[1], tr.anchors[1].title,
                LinkUrl(tr.anchors[1], target_url, final_url))>>

\* lines 145-146: the link of a row found by the second pass
FallbackUrl(a, target_url, final_url) ==
    IF a.href.kind \notin {"none", "empty"} /\ a.href.kind # "js"
    THEN urljoin(final_url, a.href)
    ELSE AsUrl(target_url)

\* lines 129-147: what one <a> adds in the second pass
AnchorPass(e, target_url, final_url) ==
    IF e.a.title = "" THEN <<>>
    ELSE IF ~e.blk.tr THEN <<>>
    ELSE IF e.blk.tds = <<>> THEN <<>>
    ELSE IF ~IsDigit(e.blk.tds[1]) THEN <<>>
    ELSE <<Item(e.blk.tds[1], e.a.title, FallbackUrl(e.a, target_url, final_url))>>

\* items_by_id after the first pass
FirstPass(target, page) ==
    LET rs == Rows(page)
    IN  DictPutAll(<<>>, Flat([i \in 1..Len(rs) |->
                                  RowPass(rs[i], target.url, page.final)]))

\* items_by_id after the second pass, which runs when the first found nothing
SecondPass(target, page) ==
    LET as == Anchors(page)
    IN  DictPutAll(<<>>, Flat([i \in 1..Len(as) |->
                                  AnchorPass(as[i], target.url, page.final)]))

\* Latest without its slice
LatestUncapped(its, v, latest_n) == SortItems(its, v, TRUE)

\* items[:latest_n] of the items sorted most recent first
Latest(its, v, latest_n) == Take(SortItems(its, v, TRUE), latest_n)

parse_html_list_number_id(target, page) ==
    LET first == FirstPass(target, page)
        by_id == IF first = <<>> THEN SecondPass(target, page) ELSE first
    IN  Returned(Latest(by_id, "primary", target.latest_n))

\* [?&]Key=(\d+), [?&]num=(\d+) (IGNORECASE) and <path_prefix>/(\d+) on an href:
\* the captured id, <<>> when the pattern does not match
MatchParam(h, pname) ==
    IF h.kind = "rel" /\ Lower(h.pname) = pname THEN LeadDigits(h.pval) ELSE <<>>
MatchPath(h, prefix) ==
    IF h.kind = "rel" /\ h.path = prefix THEN LeadDigits(h.seg) ELSE <<>>

\* the loop shared by the three link parsers; id_of[i] is the id captured
\* from the i-th <a href>
LinkItems(page, id_of) ==
    LET as == SelectSeq(Anchors(page), LAMBDA e : e.a.href.kind # "none")
    IN  DictPutAll(<<>>, Flat([i \in 1..Len(as) |->
            IF as[i].a.title = "" \/ Len(as[i].a.title) < 3 THEN <<>>
            ELSE IF id_of[as[i].a.href] = <<>> THEN <<>>
            ELSE <<Item(id_of[as[i].a.href], as[i].a.title,
                        urljoin(page.final, as[i].a.href))>>]))

Hrefs(page) == {Anchors(page)[i].a.href : i \in 1..Len(Anchors(page))}

parse_html_link_with_key(target, page) ==
    Returned(Latest(LinkItems(page, [h \in Hrefs(page) |-> MatchParam(h, "key")]),
                    "primary", target.latest_n))

parse_html_link_with_path_number(target, page) ==
    Returned(Latest(LinkItems(page, [h \in Hrefs(page) |-> MatchPath(h, target.path)]),
                    "primary", target.latest_n))

parse_html_link_with_num_param(target, page) ==
    Returned(Latest(LinkItems(page, [h \in Hrefs(page) |-> MatchParam(h, "num")]),
                    "primary", target.latest_n))

\* re.escape(key_pattern) + "([^&#]+)" (IGNORECASE): the whole value
MatchKeyPattern(h, key_pattern) ==
    IF h.kind # "none" /\ Lower(h.pname) = Lower(key_pattern) THEN h.pval ELSE <<>>

\* normalize_url
normalize_url(h, base) == [base |-> base, ref |-> h]

\* check_pages.py.py: parse_html_key_list
parse_html_key_list(target, page) ==
    LET as == SelectSeq(Anchors(page), LAMBDA e : e.a.href.kind # "none")
        by_id == DictPutAll(<<>>, Flat([i \in 1..Len(as) |->
            IF MatchKeyPattern(as[i].a.href, target.key_pattern) = <<>> THEN <<>>
            ELSE IF as[i].a.title = "" THEN <<>>
            ELSE <<Item(MatchKeyPattern(as[i].a.href, target.key_pattern),
                        as[i].a.title, normalize_url(as[i].a.href, target.site))>>]))
    IN  IF SortRaises(by_id, "alternate") THEN Raised
        ELSE Returned(Latest(by_id, "alternate", target.latest_n))

\* the types each script dispatches on
Supported(v, ttype) ==
    IF v = "primary"
    THEN ttype \in {"html_list_number_id", "html_link_with_key",
                    "html_link_with_path_number", "html_link_with_num_param"}
    ELSE ttype = "html_key_list"

\* the parser run_target selects for a supported type
Parse(v, target, page) ==
    IF v = "alternate" THEN parse_html_key_list(target, page)
    ELSE CASE target.type = "html_list_number_id" -> parse_html_list_number_id(target, page)
           [] target.type = "html_link_with_key" -> parse_html_link_with_key(target, page)
           [] target.type = "html_link_with_path_number" ->
                  parse_html_link_with_path_number(target, page)
           [] OTHER -> parse_html_link_with_num_param(target, page)

(***************************************************************************)
(* run_target and main, piece by piece                                     *)
(***************************************************************************)
\* line 268: [it for it in items if it.item_id not in seen]
Unseen(its, known) == SelectSeq(its, LAMBDA it : it.item_id \notin known)

\* NewItems without its sort: the new items stay most recent first
NewItemsUnsorted(v, its, known) == Unseen(its, known)

\* lines 268-274: the new items, oldest first
NewItems(v, its, known) == SortItems(Unseen(its, known), v, FALSE)

\* seen.add left out
SeenAddNothing(known, id) == known

\* line 280: seen.add(it.item_id)
SeenAdd(known, id) == known \cup {id}

\* `seen` is state[name] itself when the name had an entry, so an add shows there
StateAfterAdd(st, name, is_alias, known) ==
    IF is_alias THEN [st EXCEPT ![name] = known] ELSE st

\* the assignment replacing the whole mapping
StatePutOnly(st, name, known) == [n \in {name} |-> known]

\* line 283: state[name] = seen
StatePut(st, name, known) ==
    [n \in DOMAIN st \cup {name} |-> IF n = name THEN known ELSE st[n]]

\* telegram_send(text) returns (TRUE) or raises (FALSE).  check_pages.py prints
\* and returns when the credentials are missing; check_pages.py.py raises then.
\* With credentials the POST may fail in both.
SendOutcomes(v, has_creds) ==
    IF has_creds THEN {TRUE, FALSE}
    ELSE IF v = "primary" THEN {TRUE} ELSE {FALSE}

\* no script warns
NeverWarns(v) == FALSE

\* lines 261-266: check_pages.py warns on an empty extraction; check_pages.py.py
\* has no such branch
WarnsOnEmpty(v) == v = "primary"

\* line 299: check_pages.py reports the error by telegram; in check_pages.py.py
\* the call is commented out
HandlerSends(v) == v = "primary"

Msg(kind, name, id, ok) == [kind |-> kind, name |-> name, id |-> id, ok |-> ok]

(***************************************************************************)
(* The inputs the model draws from                                         *)
(***************************************************************************)
\* int(target.get("latest_n", 30))
DefaultLatestN == 30

Names == {"A", "B"}

Target(name, ttype, n) ==
    [name |-> name, url |-> "http://site/board2", site |-> "http://site",
     path |-> "/board2", type |-> ttype, latest_n |-> n, key_pattern |-> "Key"]

\* targets.json
Configs(v) ==
    IF v = "primary"
    THEN { <<>>,
           <<Target("A", "html_list_number_id", DefaultLatestN),
             Target("B", "html_link_with_key", 2)>>,
           <<Target("A", "rss", DefaultLatestN),
             Target("B", "html_list_number_id", 2)>> }
    ELSE { <<>>,
           <<Target("A", "html_key_list", DefaultLatestN),
             Target("B", "html_key_list", 1)>>,
           <<Target("A", "html_list_number_id", DefaultLatestN),
             Target("B", "html_key_list", 2)>> }

\* state.json before the first invocation: absent, unreadable, or what an
\* earlier save_state wrote
Disks ==
    { [kind |-> "missing", data |-> EmptyMap],
      [kind |-> "corrupt", data |-> EmptyMap],
      save_state([n \in {"A"} |-> {<<7>>, <<8>>, <<9>>}]),
      save_state([n \in {"A", "B"} |-> IF n = "A" THEN {<<1, 0>>, <<1, 1>>, <<1, 2>>}
                                       ELSE {<<1, 0>>}]) }

Href(path, seg, pname, pval) ==
    [kind |-> "rel", path |-> path, seg |-> seg, pname |-> pname, pval |-> pval]
HNone == [NoRef EXCEPT !.kind = "none"]
HHash == [NoRef EXCEPT !.kind = "hash"]
HJs == [NoRef EXCEPT !.kind = "js"]
View(id) == Href("/view.php", <<>>, "id", id)

NoClick == [has |-> FALSE, ref |-> NoRef]
Click(h) == [has |-> TRUE, ref |-> h]

Anchor(title, href, onclick) == [title |-> title, href |-> href, onclick |-> onclick]
Row(no, as) == [tr |-> TRUE, tds |-> <<no>>, anchors |-> as]
HeaderRow == [tr |-> TRUE, tds |-> <<>>, anchors |-> <<>>]
Loose(as) == [tr |-> FALSE, tds |-> <<>>, anchors |-> as]
Page(final, blocks) == [final |-> final, blocks |-> blocks]
NoPage == Page("", <<>>)

\* a plain notice row: number, then the title linking to the notice
Plain(id, title) == Row(id, <<Anchor(title, View(id), NoClick)>>)

\* board pages for the tabular strategy
TabPages ==
    { Page("http://site/board2", <<>>),
      Page("http://site/board2", <<HeaderRow, Plain(<<1, 0>>, "Notice A"),
                                   Plain(<<9>>, "Notice B")>>),
      Page("http://site/board2", <<Plain(<<1, 1>>, "Notice C"),
                                   Plain(<<1, 0>>, "Notice A"),
                                   Plain(<<9>>, "Notice B")>>),
      Page("http://site/board2/", <<Row(<<1, 0>>, <<Anchor("Notice A", HHash,
                                                           Click(View(<<1, 0>>)))>>),
                                    Row(<<10>>, <<Anchor("Pinned", View(<<1>>), NoClick)>>),
                                    Row(<<9>>, <<Anchor("", View(<<9>>), NoClick),
                                                 Anchor("Notice B", HHash,
                                                        Click(View(<<9>>)))>>)>>) }

\* the <a> a link strategy of type ttype reads the id from
LinkOf(ttype, id, title) ==
    Anchor(title,
           CASE ttype = "html_link_with_key" -> Href("/view.asp", <<>>, "KEY", id)
             [] ttype = "html_link_with_num_param" -> Href("/list.php", <<>>, "num", id)
             [] ttype = "html_link_with_path_number" -> Href("/board2", id, "", <<>>)
             [] OTHER -> Href("/view.asp", <<>>, "Key", id),
           NoClick)

\* board pages for the link strategies
LinkPages(ttype) ==
    { Page("http://site/board2", <<Loose(<<Anchor("Home", View(<<1>>), NoClick)>>)>>),
      Page("http://site/board2", <<Loose(<<LinkOf(ttype, <<9>>, "Notice B"),
                                           LinkOf(ttype, <<1, 1>>, "Notice C"),
                                           LinkOf(ttype, <<1, 0>>, "ab"),
                                           LinkOf(ttype, <<1, 0>>, "Notice A")>>)>>),
      Page("http://site/board2", <<Loose(<<LinkOf(ttype, <<9>>, "Notice B"),
                                           LinkOf(ttype, <<10, 1>>, "Notice D")>>)>>) }

\* what a fetch of the target's URL can return
SitePages(t) ==
    IF t.type = "html_list_number_id" THEN TabPages ELSE LinkPages(t.type)

(***************************************************************************)
(* The program                                                             *)
(***************************************************************************)
NoPages == [n \in Names |-> NoPage]
NoPrev == [done |-> FALSE, pages |-> NoPages, failed |-> {}, sent |-> {},
           state |-> EmptyMap]

Init ==
    /\ variant \in {"primary", "alternate"}
    /\ creds \in BOOLEAN
    /\ config \in Configs(variant)
    /\ disk \in Disks
    /\ state = EmptyMap
    /\ pc = "main"
    /\ idx = 0
    /\ seen = {}
    /\ aliased = FALSE
    /\ items = <<>>
    /\ new_items = <<>>
    /\ k = 0
    /\ outbox = <<>>
    /\ fetched = NoPages
    /\ prev = NoPrev
    /\ runs = 1
    /\ entry = EmptyMap
    /\ outcome = "none"

\* main, up to the loop: load_config, the empty-targets check, load_state
Start ==
    /\ pc = "main"
    /\ IF config = <<>>
       THEN pc' = "fatal" /\ UNCHANGED <<state, idx>>
       ELSE pc' = "run_target" /\ state' = load_state(disk) /\ idx' = 1
    /\ UNCHANGED <<variant, creds, config, disk, seen, aliased, items, new_items,
                   k, outbox, fetched, prev, runs, entry, outcome>>

\* run_target returned: the for loop of main moves on
Return == idx' = idx + 1 /\ pc' = "run_target"

\* run_target from its call to the first telegram_send or to its return:
\* the dispatch on the type, the fetch, the extraction, the diff
RunTarget ==
    /\ pc = "run_target"
    /\ idx <= Len(config)
    /\ LET t == config[idx] IN
       /\ seen' = StateGet(state, t.name)
       /\ aliased' = (t.name \in DOMAIN state)
       /\ entry' = state
       /\ k' = 1
       /\ \/ \* raise ValueError("Unsupported target type")
             /\ ~Supported(variant, t.type)
             /\ pc' = "except" /\ outcome' = "raised"
             /\ items' = <<>> /\ new_items' = <<>>
             /\ UNCHANGED <<idx, fetched>>
          \/ \* the fetch raises: network error, HTTP error status, timeout
             /\ Supported(variant, t.type)
             /\ pc' = "except" /\ outcome' = "raised"
             /\ items' = <<>> /\ new_items' = <<>>
             /\ UNCHANGED <<idx, fetched>>
          \/ \* the fetch returns a page
             /\ Supported(variant, t.type)
             /\ \E page \in SitePages(t) :
                  LET r == Parse(variant, t, page)
                      new == NewItems(variant, r.items, StateGet(state, t.name))
                  IN  /\ fetched' = [fetched EXCEPT ![t.name] = page]
                      /\ items' = r.items
                      /\ IF ~r.ok
                         THEN /\ pc' = "except" /\ outcome' = "raised"
                              /\ new_items' = <<>> /\ UNCHANGED idx
                         ELSE IF r.items = <<>> /\ WarnsOnEmpty(variant)
                         THEN /\ pc' = "warn" /\ outcome' = "parse_warning"
                              /\ new_items' = <<>> /\ UNCHANGED idx
                         ELSE IF new = <<>>
                         THEN /\ Return /\ outcome' = "no_new"
                              /\ new_items' = <<>>
                         ELSE /\ pc' = "send" /\ outcome' = "notifying"
                              /\ new_items' = new /\ UNCHANGED idx
    /\ UNCHANGED <<variant, creds, config, disk, state, outbox, prev, runs>>

\* lines 263-266: telegram_send(warn_msg), then return
SendWarn ==
    /\ pc = "warn"
    /\ \E ok \in SendOutcomes(variant, creds) :
         /\ outbox' = Append(outbox, Msg("warn", config[idx].name, <<>>, ok))
         /\ IF ok THEN Return ELSE pc' = "except" /\ UNCHANGED idx
    /\ UNCHANGED <<variant, creds, config, disk, state, seen, aliased, items,
                   new_items, k, fetched, prev, runs, entry, outcome>>

\* lines 276-281: one turn of the send loop
SendItem ==
    /\ pc = "send"
    /\ k <= Len(new_items)
    /\ \E ok \in SendOutcomes(variant, creds) :
         /\ outbox' = Append(outbox, Msg("new", config[idx].name,
                                         new_items[k].item_id, ok))
         /\ IF ok
            THEN /\ seen' = SeenAdd(seen, new_items[k].item_id)
                 /\ state' = StateAfterAdd(state, config[idx].name, aliased, seen')
                 /\ k' = k + 1
                 /\ UNCHANGED <<pc, outcome>>
            ELSE /\ pc' = "except" /\ outcome' = "send_failed"
                 /\ UNCHANGED <<seen, state, k>>
    /\ UNCHANGED <<variant, creds, config, disk, idx, aliased, items, new_items,
                   fetched, prev, runs, entry>>

\* line 283: the loop is over; state[name] = seen, and run_target returns
Commit ==
    /\ pc = "send"
    /\ k > Len(new_items)
    /\ state' = StatePut(state, config[idx].name, seen)
    /\ outcome' = "committed"
    /\ Return
    /\ UNCHANGED <<variant, creds, config, disk, seen, aliased, items, new_items,
                   k, outbox, fetched, prev, runs, entry>>

\* lines 296-299: main's except clause.  An exception raised inside it leaves main.
Except ==
    /\ pc = "except"
    /\ IF HandlerSends(variant)
       THEN \E ok \in SendOutcomes(variant, creds) :
              /\ outbox' = Append(outbox, Msg("error", config[idx].name, <<>>, ok))
              /\ IF ok THEN Return ELSE pc' = "crashed" /\ UNCHANGED idx
       ELSE Return /\ UNCHANGED outbox
    /\ UNCHANGED <<variant, creds, config, disk, state, seen, aliased, items,
                   new_items, k, fetched, prev, runs, entry, outcome>>

\* line 301: save_state(state), after the loop
SaveState ==
    /\ pc = "run_target"
    /\ idx > Len(config)
    /\ disk' = save_state(state)
    /\ pc' = "done"
    /\ UNCHANGED <<variant, creds, config, state, idx, seen, aliased, items,
                   new_items, k, outbox, fetched, prev, runs, entry, outcome>>

\* the names with a new-item send that raised in this invocation
FailedNames == {outbox[i].name : i \in {j \in 1..Len(outbox) :
                                       outbox[j].kind = "new" /\ ~outbox[j].ok}}

\* the names with a new-item send that returned in this invocation
SentNames == {outbox[i].name : i \in {j \in 1..Len(outbox) :
                                     outbox[j].kind = "new" /\ outbox[j].ok}}

\* the script is started again (the next scheduled run): a fresh process
Rerun ==
    /\ pc \in {"done", "crashed", "fatal"}
    /\ runs < MaxRuns
    /\ runs' = runs + 1
    /\ prev' = [done |-> pc = "done", pages |-> fetched, failed |-> FailedNames,
                sent |-> SentNames, state |-> state]
    /\ pc' = "main" /\ state' = EmptyMap /\ idx' = 0 /\ seen' = {}
    /\ aliased' = FALSE /\ items' = <<>> /\ new_items' = <<>> /\ k' = 0
    /\ outbox' = <<>> /\ fetched' = NoPages /\ entry' = EmptyMap
    /\ outcome' = "none"
    /\ UNCHANGED <<variant, creds, config, disk>>

Next ==
    \/ Start
    \/ RunTarget
    \/ SendWarn
    \/ SendItem
    \/ Commit
    \/ Except
    \/ SaveState
    \/ Rerun

Spec == Init /\ [][Next]_vars

(***************************************************************************)
(* The extraction, the diff and the save as functions of their inputs:     *)
(* FnSpec draws a target, a page and a KnownSet from wider sets than Spec  *)
(* and applies parse -> diff -> (every new id added) -> save_state.        *)
(***************************************************************************)
\* longest page, in blocks
MaxBlocks == 3

FnTabBlocks ==
    { HeaderRow,
      Plain(<<1, 0>>, "Notice A"),
      Plain(<<9>>, "Notice B"),
      Plain(<<1, 1>>, "Notice C"),
      Plain(<<0, 9>>, "Notice Z"),
      Row(<<9>>, <<Anchor("", View(<<9>>), NoClick),
                   Anchor("Notice B2", HHash, Click(View(<<9>>)))>>),
      Row(<<1, 0>>, <<Anchor("Notice A2", HJs, Click(View(<<1, 0>>)))>>),
      Row(<<1, 1>>, <<Anchor("Notice C2", HNone, NoClick)>>),
      Row(<<10>>, <<Anchor("Pinned", View(<<1>>), NoClick)>>),
      Loose(<<Anchor("Home", View(<<1>>), NoClick)>>) }

FnLinkBlocks(ttype) ==
    { Loose(<<LinkOf(ttype, <<1, 0>>, "Notice A")>>),
      Loose(<<LinkOf(ttype, <<9>>, "Notice B")>>),
      Loose(<<LinkOf(ttype, <<1, 1>>, "Notice C")>>),
      Loose(<<LinkOf(ttype, <<0, 9>>, "Notice Z")>>),
      Loose(<<LinkOf(ttype, <<10, 1>>, "Notice D")>>),
      Loose(<<LinkOf(ttype, <<9>>, "ab")>>),
      Loose(<<LinkOf(ttype, <<1, 1>>, "")>>),
      Loose(<<Anchor("Home", View(<<1>>), NoClick)>>) }

FnBlocks(ttype) ==
    IF ttype = "html_list_number_id" THEN FnTabBlocks ELSE FnLinkBlocks(ttype)

FnPages(ttype) ==
    { Page("http://site/board2", bs) :
        bs \in UNION {[1..n -> FnBlocks(ttype)] : n \in 0..MaxBlocks} }

FnTargets(v) ==
    { Target("A", ty, n) :
        ty \in IF v = "primary"
               THEN {"html_list_number_id", "html_link_with_key",
                     "html_link_with_path_number", "html_link_with_num_param"}
               ELSE {"html_key_list"},
        n \in {1, 2, DefaultLatestN} }

FnKnown == SUBSET {<<9>>, <<1, 0>>, <<10, 1>>}

FnInit ==
    /\ variant \in {"primary", "alternate"}
    /\ creds = FALSE /\ config = <<>> /\ disk = [kind |-> "missing", data |-> EmptyMap]
    /\ state = EmptyMap /\ pc = "fn" /\ idx = 0 /\ seen = {} /\ aliased = FALSE
    /\ items = <<>> /\ new_items = <<>> /\ k = 0 /\ outbox = <<>>
    /\ fetched = NoPages /\ prev = NoPrev /\ runs = 1 /\ entry = EmptyMap
    /\ outcome = "none"

\* the extraction applied to a target and a page
FnParse ==
    /\ outcome = "none"
    /\ \E t \in FnTargets(variant) : \E page \in FnPages(t.type) :
         LET r == Parse(variant, t, page)
         IN  /\ config' = <<t>>
             /\ fetched' = [fetched EXCEPT ![t.name] = page]
             /\ items' = r.items
             /\ outcome' = IF r.ok THEN "parsed" ELSE "raised"
    /\ UNCHANGED <<variant, creds, disk, state, pc, idx, seen, aliased, new_items,
                   k, outbox, prev, runs, entry>>

\* the diff applied to the extracted items and a KnownSet
FnDiff ==
    /\ outcome = "parsed"
    /\ \E known \in FnKnown :
         /\ seen' = known
         /\ new_items' = NewItems(variant, items, known)
    /\ outcome' = "diffed"
    /\ UNCHANGED <<variant, creds, config, disk, state, pc, idx, aliased, items,
                   k, outbox, fetched, prev, runs, entry>>

\* every new id added, then save_state
FnSave ==
    /\ outcome = "diffed"
    /\ state' = StatePut(state, config[1].name,
                         seen \cup {new_items[i].item_id : i \in 1..Len(new_items)})
    /\ disk' = save_state(state')
    /\ outcome' = "saved"
    /\ UNCHANGED <<variant, creds, config, pc, idx, seen, aliased, items, new_items,
                   k, outbox, fetched, prev, runs, entry>>

FnNext == FnParse \/ FnDiff \/ FnSave

FnSpec == FnInit /\ [][FnNext]_vars

(***************************************************************************)
(* The claims                                                              *)
(***************************************************************************)
\* the order the specification states for ids: numeric when both are all
\* digits, else lexical
IdLE(a, b) == IF IsDigit(a) /\ IsDigit(b) THEN IntOf(a) <= IntOf(b)
              ELSE ~StrLess(b, a)

IdsOf(its) == [i \in 1..Len(its) |-> its[i].item_id]

NoRepeat(seq) == \A i, j \in 1..Len(seq) : seq[i] = seq[j] => i = j

\* C5: the new-item sequence holds exactly the candidates whose id is absent
\* from the KnownSet, and is non-decreasing under the id order.
C5_NewItemsAreUnseenAscending ==
    outcome = "diffed" =>
        /\ \A i \in 1..Len(new_items) :
              new_items[i] \in Range(items) /\ new_items[i].item_id \notin seen
        /\ \A i \in 1..Len(items) :
              items[i].item_id \notin seen => items[i] \in Range(new_items)
        /\ NoRepeat(new_items)
        /\ \A i, j \in 1..Len(new_items) :
              i < j => IdLE(new_items[i].item_id, new_items[j].item_id)

\* Scenario A: 10 and 9 extracted, nothing known: 9 is sent before 10
C5_Witness ==
    /\ outcome = "diffed" /\ seen = {}
    /\ IdsOf(items) = << <<1, 0>>, <<9>> >>
    /\ IdsOf(new_items) = << <<9>>, <<1, 0>> >>

\* every candidate of the page: the extraction with a limit no page reaches
AllCandidates ==
    Parse(variant, [config[1] EXCEPT !.latest_n = 1000], fetched[config[1].name]).items

\* C8: an extraction returns at most `limit` items, the greatest ids, most
\* recent first, with unique ids and non-empty titles; a saved id list has at
\* most the cap's number of entries.
C8_CapLaw ==
    /\ outcome = "parsed" =>
          LET all == AllCandidates IN
          /\ Len(items) <= config[1].latest_n
          /\ Len(items) = Min(config[1].latest_n, Len(all))
          /\ Range(items) \subseteq Range(all)
          /\ NoRepeat(IdsOf(items))
          /\ \A i \in 1..Len(items) : items[i].title # ""
          /\ \A i, j \in 1..Len(items) :
                i < j => IdLE(items[j].item_id, items[i].item_id)
          /\ \A a \in Range(all) \ Range(items) : \A b \in Range(items) :
                IdLE(a.item_id, b.item_id)
    /\ outcome = "saved" =>
          \A n \in DOMAIN disk.data : Len(disk.data[n]) <= StateCap

\* a page with more candidates than the limit, and a KnownSet above the cap
C8_Witness ==
    /\ outcome = "saved"
    /\ Len(AllCandidates) > config[1].latest_n
    /\ Len(items) = config[1].latest_n
    /\ \E n \in DOMAIN state :
          Cardinality(state[n]) > StateCap /\ Len(disk.data[n]) = StateCap

\* the (row, link) pairs of the page a tabular item can come from
RowLinks(page) ==
    {e \in Range(Anchors(page)) : e.blk.tr /\ e.blk.tds # <<>> /\ e.a.title # ""}

\* C9: in the tabular strategy an item made from a link whose href is "#" or
\* javascript: and whose onclick holds a quoted URL has that URL, resolved
\* against the document base, whichever pass made the item.
C9_OnclickUrlInBothPasses ==
    (outcome = "parsed" /\ config[1].type = "html_list_number_id") =>
        LET page == fetched[config[1].name] IN
        \A i \in 1..Len(items) : \A e \in RowLinks(page) :
            ( /\ e.blk.tds[1] = items[i].item_id
              /\ e.a.title = items[i].title
              /\ \A f \in RowLinks(page) :
                    (f.blk.tds[1] = e.blk.tds[1] /\ f.a.title = e.a.title) => f = e
              /\ e.a.href.kind \in {"hash", "js"}
              /\ e.a.onclick.has )
            => items[i].url = urljoin(page.final, e.a.onclick.ref)

\* the new-item sends of source n in this invocation, in order
NewLog(n) == SelectSeq(outbox, LAMBDA m : m.kind = "new" /\ m.name = n)

\* the ids source n was sent successfully in this invocation
SentOk(n) == {m.id : m \in {x \in Range(NewLog(n)) : x.ok}}

\* the source of the run_target that ran last
CurName == IF pc \in {"warn", "send", "except", "crashed"}
           THEN config[idx].name ELSE config[idx - 1].name

\* C1: when a send fails partway through a source's new items, the ids sent
\* before it remain in the source's KnownSet and are in the state save_state
\* persists, also for a source with no entry in the loaded state.  (Only
\* KnownSets within the cap are asked to be on disk in full.)
C1_SentIdsSurviveFailedSend ==
    pc = "done" =>
        \A n \in FailedNames : \A id \in SentOk(n) :
            /\ id \in StateGet(state, n)
            /\ Cardinality(StateGet(state, n)) <= StateCap =>
                  n \in DOMAIN disk.data /\ id \in Range(disk.data[n])

\* C2: with a non-empty target list no per-source error leaves the loop of
\* main, whatever fails.
C2_NoErrorLeavesTheLoop == config # <<>> => pc # "crashed"

\* what C3 is about, for source n: the previous invocation saved, none of n's
\* sends failed, and this invocation fetched the page the previous one fetched
SamePageAfterCleanRun(n) ==
    /\ runs >= 2 /\ prev.done /\ n \notin prev.failed
    /\ prev.pages[n] # NoPage /\ fetched[n] = prev.pages[n]

\* C3 as stated: after a completed, persisted run, a second run on the same
\* page sends no new-item notification for the source, whatever the KnownSet.
C3_Idempotent ==
    \A n \in Names : SamePageAfterCleanRun(n) => NewLog(n) = <<>>

\* C3 amended: the same, for a source whose KnownSet held at most the cap's
\* number of ids when it was saved (so that save_state dropped none).
C3_IdempotentWithinCap ==
    \A n \in Names :
        (SamePageAfterCleanRun(n) /\ Cardinality(StateGet(prev.state, n)) <= StateCap)
        => NewLog(n) = <<>>

\* the first run sent new items for A; the second, on the same page, found none
C3_Witness ==
    /\ SamePageAfterCleanRun("A") /\ "A" \in prev.sent
    /\ Cardinality(StateGet(prev.state, "A")) <= StateCap
    /\ idx = 2 /\ outcome = "no_new" /\ items # <<>>

\* C4: a saved id list holds the greatest ids of the KnownSet, at most the
\* cap's number, in descending order, under the id order of the extraction.
C4_SavedListGreatestDescending ==
    pc = "done" =>
        \A n \in DOMAIN state :
            LET l == disk.data[n] IN
            /\ Len(l) = Min(StateCap, Cardinality(state[n]))
            /\ Range(l) \subseteq state[n]
            /\ \A i, j \in 1..Len(l) : i < j => IdLE(l[j], l[i])
            /\ \A a \in state[n] \ Range(l) : \A b \in Range(l) : IdLE(a, b)

\* C6: the new items of a source are sent one after another in ascending id
\* order, each at most once; a sent id is in the KnownSet before the next send
\* starts; no id of the KnownSet is sent; a failed send is the source's last.
C6_Notifying ==
    /\ \A n \in Names :
          LET log == NewLog(n) IN
          /\ \A i, j \in 1..Len(log) :
                i < j => IdLE(log[i].id, log[j].id) /\ log[i].id # log[j].id
          /\ \A i \in 1..Len(log) : i < Len(log) => log[i].ok
    /\ (pc = "send" \/ (pc = "except" /\ outcome = "send_failed")) =>
          LET log == NewLog(CurName) IN
          /\ IdsOf(new_items) \in Seq(Range(IdsOf(items)))
          /\ [i \in 1..Len(log) |-> log[i].id]
                = SubSeq(IdsOf(new_items), 1, Len(log))
          /\ \A i \in 1..Len(log) : log[i].id \notin StateGet(entry, CurName)
          /\ \A i \in 1..Len(log) : log[i].ok => log[i].id \in seen
          /\ pc = "send" =>
                /\ Len(log) = k - 1
                /\ k <= Len(new_items) => new_items[k].item_id \notin seen

\* one item sent and added, the next send failed
C6_Witness ==
    /\ pc = "except" /\ outcome = "send_failed"
    /\ Len(NewLog(CurName)) = 2
    /\ NewLog(CurName)[1].ok /\ ~NewLog(CurName)[2].ok
    /\ NewLog(CurName)[1].id \in seen
    /\ NewLog(CurName)[2].id \notin seen
    /\ Len(new_items) = 3

\* C7 as stated: an empty extraction is reported as a parse warning, sends
\* no new-item notification, leaves the state mapping unchanged, and is never
\* the "no new items" outcome.
C7_EmptyIsParseWarning ==
    /\ outcome = "no_new" => items # <<>>
    /\ outcome = "parse_warning" =>
          /\ items = <<>> /\ new_items = <<>> /\ state = entry
          /\ NewLog(CurName) = <<>>
          /\ pc = "warn" \/ \E i \in 1..Len(outbox) :
                               outbox[i].kind = "warn" /\ outbox[i].name = CurName

\* C7 amended: the same of check_pages.py; check_pages.py.py has no branch for
\* an empty extraction.
C7_EmptyIsParseWarningInPrimary == variant = "primary" => C7_EmptyIsParseWarning

\* the warning was sent and run_target returned
C7_Witness ==
    /\ variant = "primary" /\ outcome = "parse_warning" /\ pc = "run_target"
    /\ fetched[CurName] # NoPage /\ items = <<>>
    /\ outbox # <<>> /\ outbox[Len(outbox)] = Msg("warn", CurName, <<>>, TRUE)
    /\ state = entry /\ DOMAIN state # {}

\* C10: a run of source N leaves every other entry of the state mapping as it
\* was, only adds ids to N's, and changes nothing when there are no new items.
C10_Frame ==
    (outcome # "none" /\ pc # "fn") =>
        /\ \A m \in (DOMAIN state \cup DOMAIN entry) \ {CurName} :
              m \in DOMAIN state /\ m \in DOMAIN entry /\ state[m] = entry[m]
        /\ DOMAIN entry \subseteq DOMAIN state
        /\ StateGet(entry, CurName) \subseteq StateGet(state, CurName)
        /\ outcome = "no_new" => state = entry

\* B, new to the state, was committed beside A's untouched entry
C10_Witness ==
    /\ outcome = "committed" /\ CurName = "B"
    /\ DOMAIN entry = {"A"} /\ DOMAIN state = {"A", "B"}
    /\ state["A"] = entry["A"] /\ state["A"] # {} /\ state["B"] # {}

====
